---- MODULE Spec2Model ----
(***************************************************************************)
(* npm-local-development: the per-package synchronisation engine           *)
(* (src/src/index.ts, function sync) together with the two helpers of      *)
(* src/src/utils.ts, ThrottleTime and onProcessExit.                       *)
(*                                                                         *)
(* One event loop runs everything.  An action of this module is one run    *)
(* of the loop: the code from the resumption of an `await` (or from the    *)
(* delivery of a watch event, timer or signal) up to the next `await`.     *)
(* An asynchronous filesystem call takes effect when its promise settles,  *)
(* and the synchronous calls (mkdirpSync, symlinkSync, ensureSymlinkSync,  *)
(* removeSync) take effect inside the step that makes them.                *)
(***************************************************************************)
EXTENDS Integers, Sequences, FiniteSets, Bags, TLC

(***************************************************************************)
(* Bounds of the model.                                                    *)
(***************************************************************************)
\* sync tasks of the multi-task specification SpecPair
MaxTasks == 2
\* changes the developer makes to the source during one run: saves of its
\* package.json, creations and deletions of a top-level entry
MaxChanges == 2
\* link-farm rebuilds of one task that may be in progress at the same time
MaxInFlight == 2
\* shutdown signals delivered to the process
MaxSignals == 2
\* callbacks registered by the callers of onProcessExit in SpecHook
MaxCallbacks == 3
\* end of the clock of SpecThrottle, in milliseconds
MaxNow == 1500
\* timers of one throttle that may be pending at the same time
MaxTimers == 2
\* root-watch events handed to the handler in SpecReorder
MaxEvents == 3
\* package folders given on the command line
MaxArgs == 2
\* I/O errors of the filesystem calls of a rebuild
MaxFaults == 1

(***************************************************************************)
(* Program constants and the granularity of the clock.                     *)
(***************************************************************************)
\* ThrottleTime(call, cps = 5)
DefaultCps == 5
\* ThrottleTime(() => updateNodeModulesSymLinks(), 100)
RebuildCps == 100
\* Date.now() is read in steps of TickMs milliseconds
TickMs == 100
\* the "one-second window" of the doc comment of ThrottleTime
SecondMs == 1000

(***************************************************************************)
(* The source package.  A name is a sequence of path segments, so that     *)
(* join(dir, name) descends one level per segment ("@scope/util" is two).  *)
(***************************************************************************)
Range(s) == { s[n] : n \in 1..Len(s) }

\* the names package.json may list under peerDependencies
PeerNames == { <<"rxjs">>, <<"@scope", "util">> }

\* `for (const i in peerDeps)`: the keys in the order of the JSON object
PeerOrder == << <<"@scope", "util">>, <<"rxjs">> >>

PeerKeys(peers) == SelectSeq(PeerOrder, LAMBDA p : p \in peers)

\* fs.readdir(packageSource/node_modules)
NmListing == << ".package-lock.json", "@scope", "rxjs" >>

\* fs.lstat(...).isDirectory() of an entry of packageSource/node_modules
IsDirectory(file) == file \in { "@scope", "rxjs" }

\* fs.pathExists(packageSource/node_modules/<file>/package.json)
HasPackageJson(file) == file \in { "rxjs" }

\* fs.readdir(packageSource/node_modules/<file>)
SubListing(file) == IF file = "@scope" THEN << "util" >> ELSE << >>

\* top-level entries of the source other than node_modules
RootNames == { "package.json", "index.js" }

\* what the checks at the head of sync() find: all in place, no
\* package.json in the consumer, no source path given, or a source path
\* that does not exist
SetupKinds == { "ok", "noConsumerManifest", "noSource", "sourceMissing" }

\* the order in which fs.readdirSync(packageSource) lists them
RootOrder == << "index.js", "node_modules_backup", "package.json" >>

\* String.prototype.startsWith
StartsWith(s, prefix) ==
  Len(s) >= Len(prefix) /\ SubSeq(s, 1, Len(prefix)) = prefix
\* no entry of a listing
NoEntry == "none"

\* entries the developer creates and deletes while the tool runs
VolatileRoot == { "index.js" }

(***************************************************************************)
(* The mirror consumer/node_modules/<packageName> of one task.             *)
(*   kind  : what occupies the path: nothing, a real directory (the        *)
(*           mirror), a plain link to the source, an installed package     *)
(*   top   : links mirror/<file> to the top-level source entries           *)
(*   nm    : mirror/node_modules exists                                    *)
(*   links : links mirror/node_modules/<file>                              *)
(*   dirs  : real directories mirror/node_modules/<file>                   *)
(*   sub   : links mirror/node_modules/<file>/<subFile>                    *)
(***************************************************************************)
Absent ==
  [kind |-> "absent", top |-> {}, nm |-> FALSE, links |-> {}, dirs |-> {}, sub |-> {}]

Occupant(kind) == [Absent EXCEPT !.kind = kind]

\* fs.remove(clonedPackagePathInRootNodeModules)
RemoveMirror(m) == Absent

\* fs.pathExists(clonedPackagePathInRootNodeModules)
MirrorExists(m) == m.kind # "absent"

\* fs.mkdirpSync(clonedPackagePathInRootNodeModules)
Mkdirp(m) == IF m.kind = "absent" THEN Occupant("dir") ELSE m

\* fs.symlinkSync(join(relativePath, file), join(mirror, file)) succeeds
CanSymlinkRoot(m, file) == m.kind = "dir" /\ file \notin m.top

\* a mutant of SymlinkRoot: no link is made
SymlinkRootNothing(m, file) == m

SymlinkRoot(m, file) == [m EXCEPT !.top = @ \cup {file}]

\* a mutant of RemoveRoot: the entry is left in place
RemoveRootKeeps(m, file) == m

\* a mutant of RemoveRoot: every root entry goes
RemoveRootEmpties(m, file) == [m EXCEPT !.top = {}]

\* fs.removeSync(join(mirror, file))
RemoveRoot(m, file) == [m EXCEPT !.top = @ \ {file}]

\* fs.remove(join(mirror, 'node_modules'))
RemoveNodeModules(m) ==
  [m EXCEPT !.nm = FALSE, !.links = {}, !.dirs = {}, !.sub = {}]

\* mkdirs of mirror/node_modules, as ensureSymlinkSync and ensureDir do for
\* the missing parents of their target
WithNodeModules(m) ==
  IF m.kind = "absent" THEN [Occupant("dir") EXCEPT !.nm = TRUE]
  ELSE [m EXCEPT !.nm = TRUE]

\* fs.ensureSymlinkSync(source/node_modules/file, mirror/node_modules/file):
\* nothing when the destination exists, else parents are made and the link
EnsureSymlinkTop(m, file) ==
  IF file \in m.links \cup m.dirs THEN m
  ELSE [WithNodeModules(m) EXCEPT !.links = @ \cup {file}]

\* fs.ensureDir(mirror/node_modules/file)
EnsureDir(m, file) ==
  IF file \in m.links \cup m.dirs THEN m
  ELSE [WithNodeModules(m) EXCEPT !.dirs = @ \cup {file}]

\* a mutant of EnsureSymlinkSub: no link is made
EnsureSymlinkSubNothing(m, file, subFile) == m

\* fs.ensureSymlinkSync(source/nm/file/subFile, mirror/nm/file/subFile)
EnsureSymlinkSub(m, file, subFile) ==
  IF file \in m.links \/ <<file, subFile>> \in m.sub THEN m
  ELSE [EnsureDir(m, file) EXCEPT !.sub = @ \cup {<<file, subFile>>}]

\* fs.remove(join(mirror/node_modules, dep)): dep is one or two segments
RemoveDep(m, dep) ==
  IF Len(dep) = 1
  THEN [m EXCEPT !.links = @ \ {dep[1]}, !.dirs = @ \ {dep[1]},
                 !.sub = { e \in @ : e[1] # dep[1] }]
  ELSE [m EXCEPT !.sub = @ \ {<<dep[1], dep[2]>>}]

\* an entry named after dep exists under mirror/node_modules, at top level
\* or one level below a scope directory
HasEntry(m, dep) ==
  IF Len(dep) = 1 THEN dep[1] \in m.links \cup m.dirs
  ELSE <<dep[1], dep[2]>> \in m.sub

(***************************************************************************)
(* State.                                                                  *)
(***************************************************************************)
VARIABLES
  \* inputs of the run
  ntasks,         \* number of (consumer, dependency) pairs run() starts
  watching,       \* FALSE when --no-watcher was given
  preSync,        \* what occupied each mirror path when the tool started
  setup,          \* what sync() finds of its consumer and source at the start
  feed,           \* events handed to the root-watch handler, as a whole
  workspace,      \* what run() finds: lerna.json, .links.json, the arguments
  promises,       \* the calls of sync() run() has made, in order
  faults,         \* I/O errors a rebuild has met so far
  unlinkable,     \* the root entry whose symlinkSync the filesystem refuses
  \* the developer's side of the filesystem
  manifest,       \* peerDependencies of each source's package.json, on disk
  srcRoot,        \* top-level entries of each source (node_modules apart)
  srcNm,          \* the source has a node_modules directory
  hasManifest,    \* the source has a package.json
  changes,        \* changes the developer has made so far
  \* sync(): one per task
  pc,             \* where the body of sync() stands
  mirror,         \* the mirror path and what is under it
  closed,         \* let closed
  watchers,       \* subscriptions of the task that are open
  peerDeps,       \* let peerDeps, as a set of names
  peerDepsArray,  \* let peerDepsArray
  rb,             \* the calls of updateNodeModulesSymLinks in progress, a bag
  mfEvents,       \* manifest-watch events detected and not yet delivered
  rootEvents,     \* root-watch events detected and not yet delivered
  \* ThrottleTime
  thr,            \* the closure of each throttled function
  now,            \* Date.now()
  calls,          \* times at which the stand-alone throttle invoked `call`
  \* onProcessExit
  onProcessExitListeners,
  onProcessExitHooked,
  oldListener,
  sigintListeners, \* process.listeners('SIGINT')
  handlers,        \* the runs of the SIGINT handler of onProcessExit
  proc,            \* the process: running, exited, killed or crashed
  signals,         \* shutdown signals delivered so far
  registrations,   \* calls of onProcessExit made by other callers
  tdCount,         \* invocations of each task's shutdown callback
  tdDone           \* the task's shutdown callback has run to completion

inputVars == <<ntasks, watching, preSync, setup, feed, workspace, promises,
               faults, unlinkable>>
devVars   == <<manifest, srcRoot, srcNm, hasManifest, changes>>
taskVars  == <<pc, mirror, closed, watchers, peerDeps, peerDepsArray, rb,
               mfEvents, rootEvents>>
thrVars   == <<thr, now, calls>>
hookVars  == <<onProcessExitListeners, onProcessExitHooked, oldListener,
               sigintListeners, handlers, proc, signals, registrations,
               tdCount, tdDone>>
vars      == <<inputVars, devVars, taskVars, thrVars, hookVars>>
\* hookVars but proc
hookRest  == <<onProcessExitListeners, onProcessExitHooked, oldListener,
               sigintListeners, handlers, signals, registrations, tdCount,
               tdDone>>

Tasks == 1..ntasks

\* the throttle made by a bare ThrottleTime(call), outside any task
Standalone == 0

(***************************************************************************)
(* ThrottleTime (utils.ts).                                                *)
(***************************************************************************)
NoThrottle ==
  [made |-> FALSE, cps |-> DefaultCps, last |-> 0, dirty |-> FALSE,
   execution |-> FALSE, timers |-> 0]

\* let last = Date.now(); let dirty = false; let execution = false
NewThrottle(cps, clock) ==
  [made |-> TRUE, cps |-> cps, last |-> clock, dirty |-> FALSE,
   execution |-> FALSE, timers |-> 0]

\* a mutant of ThrottleReady: `>=` where the code has `>`
ThrottleReadyAtInterval(th, clock) ==
  ~th.execution /\ (clock - th.last) * th.cps >= SecondMs

\* !execution && now - last > 1000 / cps
ThrottleReady(th, clock) ==
  ~th.execution /\ (clock - th.last) * th.cps > SecondMs

\* a mutant of AfterTick: no setTimeout(tick) while the throttle is dirty
AfterTickNoTimer(th, clock) ==
  IF ~th.execution /\ (clock - th.last) * th.cps > SecondMs
  THEN [th EXCEPT !.dirty = FALSE, !.last = clock]
  ELSE th

\* the closure after tick() has run: after `call` when it was due, else
\* with one more timer when the throttle is dirty
AfterTick(th, clock) ==
  IF ThrottleReady(th, clock)
  THEN [th EXCEPT !.dirty = FALSE, !.last = clock]
  ELSE IF th.dirty THEN [th EXCEPT !.timers = @ + 1] ELSE th

\* dirty = true; lastArgs = args  (the program passes no arguments)
Triggered(th) == [th EXCEPT !.dirty = TRUE]

(***************************************************************************)
(* onProcessExit (utils.ts).                                               *)
(***************************************************************************)
TaskCallback(t) == [kind |-> "task", id |-> t]

\* a mutant of Unshift: onProcessExitListeners.push(callback)
Push(list, callback) == Append(list, callback)

\* onProcessExitListeners.unshift(callback)
Unshift(list, callback) == <<callback>> \o list

\* a mutant of AfterEmit: process.on('SIGINT') where the code has once
KeepListeners(list) == list

\* process.once('SIGINT', ...): the listener is removed when it is emitted
AfterEmit(list) == SelectSeq(list, LAMBDA l : l # "hook")

\* a mutant of Registered: the callback is not kept
RegisteredNot(h, callback) == h

\* the four variables onProcessExit(callback) writes, after the call
Registered(h, callback) ==
  [listeners |-> Unshift(h.listeners, callback),
   hooked    |-> TRUE,
   old       |-> IF h.hooked THEN h.old ELSE h.sigint,
   sigint    |-> IF h.hooked THEN h.sigint ELSE <<"hook">>]

HookState ==
  [listeners |-> onProcessExitListeners, hooked |-> onProcessExitHooked,
   old |-> oldListener, sigint |-> sigintListeners]

SetHook(h) ==
  /\ onProcessExitListeners' = h.listeners
  /\ onProcessExitHooked' = h.hooked
  /\ oldListener' = h.old
  /\ sigintListeners' = h.sigint

\* the synchronous part of a callback: sync()'s callback sets closed, closes
\* the watchers pushed so far and starts fs.remove(mirror)
ClosedAfter(cb) ==
  IF cb.kind = "task" THEN [closed EXCEPT ![cb.id] = TRUE] ELSE closed

\* a mutant of WatchersAfter: the callback closes no watcher
WatchersAfterOpen(cb) == watchers

WatchersAfter(cb) ==
  IF cb.kind = "task" THEN [watchers EXCEPT ![cb.id] = {}] ELSE watchers

MfEventsAfter(cb) ==
  IF cb.kind = "task" THEN [mfEvents EXCEPT ![cb.id] = 0] ELSE mfEvents

RootEventsAfter(cb) ==
  IF cb.kind = "task" THEN [rootEvents EXCEPT ![cb.id] = <<>>] ELSE rootEvents

TdCountAfter(cb) ==
  IF cb.kind = "task" THEN [tdCount EXCEPT ![cb.id] = @ + 1] ELSE tdCount

\* the handler run h of hs goes on with its k-th callback, or leaves the loop
\* (lines 63-79); sig is process.listeners('SIGINT') as the step found it;
\* process.exit(1) ends the process and with it every watcher still open
Proceed(hs, h, k, sig) ==
  LET r == hs[h] IN
  IF k <= Len(r.listeners)
  THEN LET cb == r.listeners[k] IN
       /\ handlers' = [hs EXCEPT ![h] =
              [r EXCEPT !.idx = k, !.state = "await",
                        !.isRecovered = @ \/ cb.kind = "recover"]]
       /\ closed' = ClosedAfter(cb)
       /\ watchers' = WatchersAfter(cb)
       /\ mfEvents' = MfEventsAfter(cb)
       /\ rootEvents' = RootEventsAfter(cb)
       /\ tdCount' = TdCountAfter(cb)
       /\ sigintListeners' = sig
       /\ UNCHANGED <<onProcessExitListeners, proc>>
  ELSE /\ handlers' = [hs EXCEPT ![h] = [r EXCEPT !.idx = k, !.state = "finished"]]
       /\ onProcessExitListeners' = <<>>
       /\ IF ~r.isRecovered
          THEN /\ proc' = "exited"
               /\ sigintListeners' = sig
               /\ watchers' = [t \in DOMAIN watchers |-> {}]
          ELSE /\ proc' = proc
               /\ sigintListeners' = oldListener
               /\ watchers' = watchers
       /\ UNCHANGED <<closed, mfEvents, rootEvents, tdCount>>

\* SIGINT is delivered: with no listener the default action ends the
\* process; else every listener is emitted, and the one of onProcessExit
\* snapshots the callbacks and runs the first up to its await
Sigint ==
  /\ proc = "running"
  /\ signals < MaxSignals
  /\ signals' = signals + 1
  /\ IF sigintListeners = <<>>
     THEN /\ proc' = "killed"
          /\ UNCHANGED <<onProcessExitListeners, sigintListeners, handlers,
                         closed, watchers, mfEvents, rootEvents, tdCount>>
     ELSE IF "hook" \in Range(sigintListeners)
     THEN Proceed(Append(handlers,
                    [listeners |-> onProcessExitListeners, idx |-> 0,
                     isRecovered |-> FALSE, state |-> "await"]),
                  Len(handlers) + 1, 1, AfterEmit(sigintListeners))
     ELSE UNCHANGED <<onProcessExitListeners, sigintListeners, handlers, proc,
                      closed, watchers, mfEvents, rootEvents, tdCount>>
  /\ UNCHANGED <<inputVars, devVars, pc, mirror, peerDeps, peerDepsArray, rb,
                 thrVars, onProcessExitHooked, oldListener, registrations, tdDone>>

\* the promise of the callback a handler run awaits settles: fs.remove of
\* sync()'s callback has removed the mirror; a "throw" callback rejects, the
\* handler run ends there and the rejection is unhandled (a warning, or the
\* end of the process, by the version of the runtime)
HandlerResume(h) ==
  /\ proc = "running"
  /\ h \in 1..Len(handlers)
  /\ handlers[h].state = "await"
  /\ LET r  == handlers[h]
         cb == r.listeners[r.idx]
     IN IF cb.kind = "throw"
        THEN /\ handlers' = [handlers EXCEPT ![h].state = "aborted"]
             /\ proc' \in {"running", "crashed"}
             /\ UNCHANGED <<onProcessExitListeners, sigintListeners, closed,
                            watchers, mfEvents, rootEvents, tdCount, mirror,
                            tdDone>>
        ELSE /\ IF cb.kind = "task"
                THEN /\ mirror' = [mirror EXCEPT ![cb.id] = RemoveMirror(@)]
                     /\ tdDone' = [tdDone EXCEPT ![cb.id] = TRUE]
                ELSE UNCHANGED <<mirror, tdDone>>
             /\ Proceed(handlers, h, r.idx + 1, sigintListeners)
  /\ UNCHANGED <<inputVars, devVars, pc, peerDeps, peerDepsArray, rb, thrVars,
                 onProcessExitHooked, oldListener, registrations, signals>>

(***************************************************************************)
(* sync (index.ts): readDeps and updateNodeModulesSymLinks.                *)
(***************************************************************************)
\* a mutant of ReadDepsArray: peerDepsArray is left as it was
ReadDepsKeepsArray(array, peers) == array

\* a mutant of ReadDepsArray: the array is reset like peerDeps
ReadDepsResetsArray(array, peers) == PeerKeys(peers)

\* readDeps(): peerDepsArray.push(i) for every key of peerDependencies
ReadDepsArray(array, peers) == array \o PeerKeys(peers)

\* updateNodeModulesSymLinks() past `if (closed) return`, awaiting
\* fs.remove(join(mirror, 'node_modules')); initial marks the call of line
\* 151, which sync() awaits
\* a mutant of ClosedAtEntry: closed is not looked at
ClosedAtEntryIgnored(t) == FALSE

\* line 95: `if (closed) return`
ClosedAtEntry(t) == closed[t]

Started(initial) == [pc |-> "remove", i |-> 0, j |-> 0, k |-> 0, initial |-> initial]

One(r) == SetToBag({r})

InFlight(t) == BagToSet(rb[t])

\* the model lets at most MaxInFlight calls of one task be in progress
CanStart(t) == BagCardinality(rb[t]) < MaxInFlight

\* a mutant of NextFile: the call returns without the loop over
\* peerDepsArray
NextFileNoPeers(t, r) ==
  IF r.i < Len(NmListing) THEN [r EXCEPT !.pc = "file", !.i = @ + 1, !.j = 0]
  ELSE [r EXCEPT !.pc = "done"]

\* the loop over readdir(packageNodeModules) goes to its next file, or ends
\* and the loop over peerDepsArray starts (awaiting its first fs.remove)
NextFile(t, r) ==
  IF r.i < Len(NmListing) THEN [r EXCEPT !.pc = "file", !.i = @ + 1, !.j = 0]
  ELSE IF Len(peerDepsArray[t]) > 0 THEN [r EXCEPT !.pc = "peer", !.k = 1]
  ELSE [r EXCEPT !.pc = "done"]

\* the loop over readdir(packageNodeModules/file) goes to its next subFile
NextSub(t, r) ==
  IF r.j < Len(SubListing(NmListing[r.i])) THEN [r EXCEPT !.pc = "sub", !.j = @ + 1]
  ELSE NextFile(t, r)

\* fs.readdirSync(packageSource)
\* fs.symlinkSync of a root entry does not throw
Linkable(m, file) == CanSymlinkRoot(m, file) /\ file # unlinkable

RootListing(t) ==
  SelectSeq(RootOrder, LAMBDA f : f \in srcRoot[t])
    \o (IF srcNm[t] THEN <<"node_modules">> ELSE << >>)

\* lines 139-149: one symlinkSync per entry but node_modules; the first
\* that throws ends the loop in the catch
RECURSIVE LinkRootFiles(_, _)
LinkRootFiles(m, files) ==
  IF files = << >> THEN m
  ELSE IF Head(files) = "node_modules" THEN LinkRootFiles(m, Tail(files))
  ELSE IF Linkable(m, Head(files))
       THEN LinkRootFiles(SymlinkRoot(m, Head(files)), Tail(files))
       ELSE m

\* a mutant of AfterInitialRebuild: `watching` is not looked at
AfterInitialRebuildWatches(t) ==
  /\ pc' = [pc EXCEPT ![t] = "watching"]
  /\ thr' = [thr EXCEPT ![t] = NewThrottle(RebuildCps, now)]
  /\ watchers' = [watchers EXCEPT ![t] = @ \cup {"manifest", "root"}]

\* lines 153-202, after `await updateNodeModulesSymLinks()`: the throttle is
\* made and the two watchers are pushed
AfterInitialRebuild(t) ==
  IF watching
  THEN /\ pc' = [pc EXCEPT ![t] = "watching"]
       /\ thr' = [thr EXCEPT ![t] = NewThrottle(RebuildCps, now)]
       /\ watchers' = [watchers EXCEPT ![t] = @ \cup {"manifest", "root"}]
  ELSE /\ pc' = [pc EXCEPT ![t] = "finished"]
       /\ UNCHANGED <<thr, watchers>>

\* the call of updateNodeModulesSymLinks that stood at r goes on as record
\* next; when it has returned, the `await` of line 151 resumes
Settle(t, r, next) ==
  IF next.pc = "done"
  THEN /\ rb' = [rb EXCEPT ![t] = @ (-) One(r)]
       /\ IF r.initial THEN AfterInitialRebuild(t)
          ELSE UNCHANGED <<pc, thr, watchers>>
  ELSE /\ rb' = [rb EXCEPT ![t] = (@ (-) One(r)) (+) One(next)]
       /\ UNCHANGED <<pc, thr, watchers>>

\* an awaited call of the call r of updateNodeModulesSymLinks rejects: the
\* call ends there with its promise rejected. The first call is awaited by
\* sync() (line 151), which rejects in turn and never reaches the watchers;
\* the promise of a throttled call is dropped by tick() (utils.ts:17).
\* Either way nothing handles the rejection: a warning, or the end of the
\* process, by the version of the runtime
Reject(t, r) ==
  /\ rb' = [rb EXCEPT ![t] = @ (-) One(r)]
  /\ pc' = IF r.initial THEN [pc EXCEPT ![t] = "failed"] ELSE pc
  /\ proc' \in {"running", "crashed"}
  /\ UNCHANGED <<thr, watchers>>

\* lines 136-151: mkdirpSync, the root links, the first rebuild
BuildMirror(t, m) ==
  /\ mirror' = [mirror EXCEPT ![t] = LinkRootFiles(Mkdirp(m), RootListing(t))]
  /\ IF ClosedAtEntry(t)
     THEN AfterInitialRebuild(t) /\ UNCHANGED rb
     ELSE /\ rb' = [rb EXCEPT ![t] = @ (+) One(Started(TRUE))]
          /\ pc' = [pc EXCEPT ![t] = "awaitRebuild"]
          /\ UNCHANGED <<thr, watchers>>

\* run(): lerna()/config() call sync() for every pair before any promise
\* settles; each sync() runs to its first await: readDeps(), the shutdown
\* callback is registered when watching, fs.pathExists(mirror) is awaited
\* lines 31-49 and 75: sync() gets past its checks and its first readDeps();
\* fs.readJSONSync throws when the source has no package.json
\* a mutant of Starts: lines 32-49 check nothing
StartsUnchecked(t) == hasManifest[t]

Starts(t) == setup[t] = "ok" /\ hasManifest[t]

RECURSIVE RegisterTasks(_, _)
RegisterTasks(h, t) ==
  IF t > ntasks THEN h
  ELSE IF Starts(t) THEN RegisterTasks(Registered(h, TaskCallback(t)), t + 1)
  ELSE RegisterTasks(h, t + 1)

\* a sync() that throws rejects its promise, Promise.all of run() rejects
\* and nothing handles it: a warning, or the end of the process, by the
\* version of the runtime
Run ==
  /\ proc = "running"
  /\ ntasks > 0
  /\ \A t \in Tasks : pc[t] = "init"
  /\ pc' = [t \in Tasks |-> IF Starts(t) THEN "pathExists" ELSE "failed"]
  /\ peerDeps' = [t \in Tasks |-> IF Starts(t) THEN manifest[t] ELSE peerDeps[t]]
  /\ peerDepsArray' = [t \in Tasks |->
        IF Starts(t) THEN ReadDepsArray(peerDepsArray[t], manifest[t])
        ELSE peerDepsArray[t]]
  /\ IF watching THEN SetHook(RegisterTasks(HookState, 1))
     ELSE UNCHANGED <<onProcessExitListeners, onProcessExitHooked, oldListener,
                      sigintListeners>>
  /\ IF \A t \in Tasks : Starts(t) THEN proc' = proc
     ELSE proc' \in {"running", "crashed"}
  /\ UNCHANGED <<inputVars, devVars, mirror, closed, watchers, rb, mfEvents,
                 rootEvents, thrVars, handlers, signals, registrations,
                 tdCount, tdDone>>

\* line 90: fs.pathExists(mirror) settles
PathExistsDone(t) ==
  /\ proc = "running"
  /\ pc[t] = "pathExists"
  /\ IF MirrorExists(mirror[t])
     THEN /\ pc' = [pc EXCEPT ![t] = "preclean"]
          /\ UNCHANGED <<mirror, rb, thr, watchers>>
     ELSE BuildMirror(t, mirror[t])
  /\ UNCHANGED <<inputVars, devVars, closed, peerDeps, peerDepsArray, mfEvents,
                 rootEvents, now, calls, hookVars>>

\* line 91: fs.remove(mirror) settles
PrecleanDone(t) ==
  /\ proc = "running"
  /\ pc[t] = "preclean"
  /\ BuildMirror(t, RemoveMirror(mirror[t]))
  /\ UNCHANGED <<inputVars, devVars, closed, peerDeps, peerDepsArray, mfEvents,
                 rootEvents, now, calls, hookVars>>

\* line 97 settles; lines 102-107: without a source node_modules the call
\* returns, else the listing is read and the first file is looked at
RebuildRemoveDone(t, r) ==
  /\ proc = "running"
  /\ r.pc = "remove"
  /\ mirror' = [mirror EXCEPT ![t] = RemoveNodeModules(@)]
  /\ Settle(t, r, IF srcNm[t] THEN NextFile(t, r) ELSE [r EXCEPT !.pc = "done"])
  /\ UNCHANGED <<inputVars, devVars, closed, peerDeps, peerDepsArray, mfEvents,
                 rootEvents, now, calls, hookVars>>

\* lines 108-118: lstat and pathExists of one file have settled; a file
\* that is no directory is skipped, a package is linked, and for a scope
\* directory ensureDir is awaited
RebuildFile(t, r) ==
  /\ proc = "running"
  /\ r.pc = "file"
  /\ LET file == NmListing[r.i]
     IN IF ~srcNm[t]
        THEN UNCHANGED mirror /\ Reject(t, r)
        ELSE IF ~IsDirectory(file)
        THEN UNCHANGED <<mirror, proc>> /\ Settle(t, r, NextFile(t, r))
        ELSE IF HasPackageJson(file)
        THEN /\ mirror' = [mirror EXCEPT ![t] = EnsureSymlinkTop(@, file)]
             /\ Settle(t, r, NextFile(t, r))
             /\ UNCHANGED proc
        ELSE /\ UNCHANGED <<mirror, proc>>
             /\ Settle(t, r, [r EXCEPT !.pc = "ensureDir"])
  /\ UNCHANGED <<inputVars, devVars, closed, peerDeps, peerDepsArray, mfEvents,
                 rootEvents, now, calls, hookRest>>

\* line 118 settles, line 119 reads the scope directory's listing
RebuildEnsureDirDone(t, r) ==
  /\ proc = "running"
  /\ r.pc = "ensureDir"
  /\ mirror' = [mirror EXCEPT ![t] = EnsureDir(@, NmListing[r.i])]
  /\ IF ~srcNm[t] THEN Reject(t, r)
     ELSE Settle(t, r, NextSub(t, r)) /\ UNCHANGED proc
  /\ UNCHANGED <<inputVars, devVars, closed, peerDeps, peerDepsArray, mfEvents,
                 rootEvents, now, calls, hookRest>>

\* lines 120-126: lstat of one subFile has settled; every subFile of the
\* listing is a directory and is linked
RebuildSub(t, r) ==
  /\ proc = "running"
  /\ r.pc = "sub"
  /\ IF ~srcNm[t]
     THEN UNCHANGED mirror /\ Reject(t, r)
     ELSE /\ mirror' = [mirror EXCEPT ![t] =
               EnsureSymlinkSub(@, NmListing[r.i], SubListing(NmListing[r.i])[r.j])]
          /\ Settle(t, r, NextSub(t, r))
          /\ UNCHANGED proc
  /\ UNCHANGED <<inputVars, devVars, closed, peerDeps, peerDepsArray, mfEvents,
                 rootEvents, now, calls, hookRest>>

\* lines 131-133: fs.remove of the k-th element of peerDepsArray settles;
\* the array is iterated live, so elements pushed meanwhile are visited
RebuildPeer(t, r) ==
  /\ proc = "running"
  /\ r.pc = "peer"
  /\ mirror' = [mirror EXCEPT ![t] = RemoveDep(@, peerDepsArray[t][r.k])]
  /\ Settle(t, r, IF r.k < Len(peerDepsArray[t]) THEN [r EXCEPT !.k = @ + 1]
                  ELSE [r EXCEPT !.pc = "done"])
  /\ UNCHANGED <<inputVars, devVars, closed, peerDeps, peerDepsArray, mfEvents,
                 rootEvents, now, calls, hookVars>>

(***************************************************************************)
(* The throttled rebuild and the two watchers of a task.                   *)
(***************************************************************************)
\* tick() of the throttle `id` whose closure is th: `call` is the rebuild of
\* task id, or for the stand-alone throttle a call that is only recorded
TickStep(id, th) ==
  /\ thr' = [thr EXCEPT ![id] = AfterTick(th, now)]
  /\ IF ~ThrottleReady(th, now) THEN UNCHANGED <<rb, calls>>
     ELSE IF id = Standalone THEN calls' = Append(calls, now) /\ UNCHANGED rb
     ELSE IF ClosedAtEntry(id) THEN UNCHANGED <<rb, calls>>
     ELSE /\ CanStart(id)
          /\ rb' = [rb EXCEPT ![id] = @ (+) One(Started(FALSE))]
          /\ UNCHANGED calls

\* the developer saves the source's package.json with one name added to
\* peerDependencies, or one name taken out
ManifestEdit(t, name) ==
  /\ proc = "running"
  /\ pc[t] \notin {"init", "finished"}
  /\ changes < MaxChanges
  /\ manifest' = [manifest EXCEPT ![t] =
                     IF name \in @ THEN @ \ {name} ELSE @ \cup {name}]
  /\ changes' = changes + 1
  /\ mfEvents' = [mfEvents EXCEPT ![t] =
                     IF "manifest" \in watchers[t] THEN @ + 1 ELSE @]
  /\ UNCHANGED <<inputVars, srcRoot, srcNm, hasManifest, pc, mirror, closed,
                 watchers, peerDeps, peerDepsArray, rb, rootEvents, thrVars,
                 hookVars>>

\* lines 164-168: the manifest watcher delivers an event
ManifestEvent(t) ==
  /\ proc = "running"
  /\ "manifest" \in watchers[t]
  /\ mfEvents[t] > 0
  /\ mfEvents' = [mfEvents EXCEPT ![t] = @ - 1]
  /\ peerDeps' = [peerDeps EXCEPT ![t] = manifest[t]]
  /\ peerDepsArray' = [peerDepsArray EXCEPT ![t] = ReadDepsArray(@, manifest[t])]
  /\ TickStep(t, Triggered(thr[t]))
  /\ UNCHANGED <<inputVars, devVars, pc, mirror, closed, watchers, rootEvents,
                 now, hookVars>>

\* a timer set by setTimeout(tick) fires
TimerFire(id) ==
  /\ proc = "running"
  /\ thr[id].timers > 0
  /\ TickStep(id, [thr[id] EXCEPT !.timers = @ - 1])
  /\ UNCHANGED <<inputVars, devVars, pc, mirror, closed, watchers, peerDeps,
                 peerDepsArray, mfEvents, rootEvents, now, hookVars>>

\* the clock matters to a throttle that is not yet due again
Waiting(id) == thr[id].made /\ ~ThrottleReady(thr[id], now)

\* calls of the last second
Recent(times, clock) == SelectSeq(times, LAMBDA c : c > clock - SecondMs)

\* time passes
Tick ==
  /\ proc = "running"
  /\ IF Standalone \in DOMAIN thr THEN now < MaxNow
     ELSE \E id \in DOMAIN thr : Waiting(id)
  /\ now' = now + TickMs
  /\ calls' = Recent(calls, now + TickMs)
  /\ UNCHANGED <<inputVars, devVars, taskVars, thr, hookVars>>

\* the developer saves the source's package.json as it is
ManifestTouch(t) ==
  /\ proc = "running"
  /\ "manifest" \in watchers[t]
  /\ changes < MaxChanges
  /\ changes' = changes + 1
  /\ mfEvents' = [mfEvents EXCEPT ![t] = @ + 1]
  /\ UNCHANGED <<inputVars, manifest, srcRoot, srcNm, hasManifest, pc, mirror,
                 closed, watchers, peerDeps, peerDepsArray, rb, rootEvents,
                 thrVars, hookVars>>

\* the developer deletes the source's node_modules, after a save of
\* package.json the manifest watcher has yet to report; the root watcher's
\* handler returns at line 180 for every path below node_modules
RemoveSourceNodeModules(t) ==
  /\ proc = "running"
  /\ mfEvents[t] > 0
  /\ srcNm[t]
  /\ srcNm' = [srcNm EXCEPT ![t] = FALSE]
  /\ UNCHANGED <<inputVars, manifest, srcRoot, hasManifest, changes, taskVars,
                 thrVars, hookVars>>

\* the developer creates or deletes a top-level entry of the source
RootChange(t, file) ==
  /\ proc = "running"
  /\ pc[t] \notin {"init", "finished"}
  /\ changes < MaxChanges
  /\ changes' = changes + 1
  /\ srcRoot' = [srcRoot EXCEPT ![t] =
                    IF file \in @ THEN @ \ {file} ELSE @ \cup {file}]
  /\ rootEvents' = [rootEvents EXCEPT ![t] =
        IF "root" \notin watchers[t] THEN @
        ELSE Append(@, [event |-> IF file \in srcRoot[t] THEN "unlink" ELSE "add",
                        path |-> file])]
  /\ UNCHANGED <<inputVars, manifest, srcNm, hasManifest, pc, mirror, closed,
                 watchers, peerDeps, peerDepsArray, rb, mfEvents, thrVars,
                 hookVars>>

\* lines 179-200: the root watcher delivers an event
RootEvent(t) ==
  /\ proc = "running"
  /\ "root" \in watchers[t]
  /\ rootEvents[t] # << >>
  /\ rootEvents' = [rootEvents EXCEPT ![t] = Tail(@)]
  /\ LET e == Head(rootEvents[t]) IN
     mirror' = [mirror EXCEPT ![t] =
        IF StartsWith(e.path, "node_modules") THEN @
        ELSE IF e.event \in {"unlink", "unlinkDir"} THEN RemoveRoot(@, e.path)
        ELSE IF e.event \in {"addDir", "add"} /\ Linkable(@, e.path)
             THEN SymlinkRoot(@, e.path)
             ELSE @]
  /\ UNCHANGED <<inputVars, devVars, pc, closed, watchers, peerDeps,
                 peerDepsArray, rb, mfEvents, thrVars, hookVars>>

(***************************************************************************)
(* Callers of utils.ts other than sync().                                  *)
(***************************************************************************)
CallbackKinds == {"plain", "recover", "throw"}

\* onProcessExit(callback) for a callback that resolves, that calls
\* event.recovered(), or that throws
RegisterCallback(kind) ==
  /\ proc = "running"
  /\ registrations < MaxCallbacks
  /\ registrations' = registrations + 1
  /\ SetHook(Registered(HookState, [kind |-> kind, id |-> registrations + 1]))
  /\ UNCHANGED <<inputVars, devVars, taskVars, thrVars, handlers, proc, signals,
                 tdCount, tdDone>>

\* throttled(...) is called
Trigger ==
  /\ proc = "running"
  /\ Standalone \in DOMAIN thr
  /\ AfterTick(Triggered(thr[Standalone]), now).timers <= MaxTimers
  /\ TickStep(Standalone, Triggered(thr[Standalone]))
  /\ UNCHANGED <<inputVars, devVars, pc, mirror, closed, watchers, peerDeps,
                 peerDepsArray, mfEvents, rootEvents, now, hookVars>>

(***************************************************************************)
(* Initial states and specifications.                                      *)
(***************************************************************************)
InitTasks(n, modes) ==
  /\ ntasks = n
  /\ watching \in modes
  /\ preSync \in [1..n -> {"absent", "link", "pkg"}]
  /\ manifest \in [1..n -> SUBSET PeerNames]
  /\ srcRoot = [t \in 1..n |-> RootNames]
  /\ srcNm \in [1..n -> BOOLEAN]
  /\ changes = 0
  /\ promises = << >>
  /\ faults = 0
  /\ pc = [t \in 1..n |-> "init"]
  /\ mirror = [t \in 1..n |-> Occupant(preSync[t])]
  /\ closed = [t \in 1..n |-> FALSE]
  /\ watchers = [t \in 1..n |-> {}]
  /\ peerDeps = [t \in 1..n |-> {}]
  /\ peerDepsArray = [t \in 1..n |-> << >>]
  /\ rb = [t \in 1..n |-> EmptyBag]
  /\ mfEvents = [t \in 1..n |-> 0]
  /\ rootEvents = [t \in 1..n |-> << >>]
  /\ now = 0
  /\ calls = << >>
  /\ onProcessExitListeners = << >>
  /\ onProcessExitHooked = FALSE
  /\ oldListener = << >>
  /\ handlers = << >>
  /\ proc = "running"
  /\ signals = 0
  /\ registrations = 0
  /\ tdCount = [t \in 1..n |-> 0]
  /\ tdDone = [t \in 1..n |-> FALSE]

\* consumer, source and manifest are in place for every sync()
InPlace(n) ==
  /\ unlinkable = NoEntry
  /\ setup = [t \in 1..n |-> "ok"]
  /\ hasManifest = [t \in 1..n |-> TRUE]

\* no events are handed over as a whole, nothing of run() is looked at
NoFeed(n) ==
  /\ feed = [t \in 1..n |-> << >>]
  /\ workspace = << >>

\* one task, with the developer at work on the source
Init ==
  /\ InitTasks(1, BOOLEAN)
  /\ InPlace(1)
  /\ NoFeed(1)
  /\ thr = [t \in 1..1 |-> NoThrottle]
  /\ sigintListeners = << >>

TaskStep(t) ==
  \/ PathExistsDone(t)
  \/ PrecleanDone(t)
  \/ \E r \in InFlight(t) :
       \/ RebuildRemoveDone(t, r)
       \/ RebuildFile(t, r)
       \/ RebuildEnsureDirDone(t, r)
       \/ RebuildSub(t, r)
       \/ RebuildPeer(t, r)

WatchStep(t) ==
  \/ \E name \in PeerNames : ManifestEdit(t, name)
  \/ ManifestEvent(t)
  \/ TimerFire(t)
  \/ \E file \in VolatileRoot : RootChange(t, file)
  \/ RootEvent(t)

Shutdown ==
  \/ Sigint
  \/ \E h \in 1..MaxSignals : HandlerResume(h)

Next ==
  \/ Run
  \/ \E t \in Tasks : TaskStep(t)
  \/ \E t \in Tasks : WatchStep(t)
  \/ Tick
  \/ Shutdown

Spec == Init /\ [][Next]_vars

\* MaxTasks consumers of one source package, started by one run(), and the
\* shutdown signal
InitPair ==
  /\ InitTasks(MaxTasks, BOOLEAN)
  /\ setup \in [1..MaxTasks -> SetupKinds]
  /\ hasManifest \in [1..MaxTasks -> BOOLEAN]
  /\ unlinkable = NoEntry
  /\ NoFeed(MaxTasks)
  /\ \A t \in 1..MaxTasks :
       /\ preSync[t] = preSync[1]
       /\ manifest[t] = manifest[1]
       /\ srcNm[t] = srcNm[1]
  /\ thr = [t \in 1..MaxTasks |-> NoThrottle]
  /\ sigintListeners = << >>

NextPair ==
  \/ Run
  \/ \E t \in Tasks : TaskStep(t)
  \/ Shutdown

SpecPair == InitPair /\ [][NextPair]_vars

\* the task of Spec
Solo == 1

\* Spec with an event loop that keeps running: time passes while a throttle
\* waits, timers that are set fire, and awaited filesystem calls settle
SpecLive ==
  /\ Spec
  /\ WF_vars(Tick)
  /\ WF_vars(TimerFire(Solo))
  /\ WF_vars(TaskStep(Solo))

\* onProcessExit alone, with callbacks of the three kinds and with signal
\* handlers that other code installed before
InitHook ==
  /\ InitTasks(0, {TRUE})
  /\ InPlace(0)
  /\ NoFeed(0)
  /\ thr = << >>
  /\ sigintListeners \in { << >>, <<"ext1">>, <<"ext1", "ext2">> }

NextHook ==
  \/ \E kind \in CallbackKinds : RegisterCallback(kind)
  \/ Shutdown

SpecHook == InitHook /\ [][NextHook]_vars

\* Array.prototype.indexOf: the first position of callback, 0 when it is
\* not there (JavaScript's -1)
IndexOf(list, callback) ==
  IF callback \in Range(list)
  THEN CHOOSE i \in DOMAIN list :
         list[i] = callback /\ \A j \in 1..(i - 1) : list[j] # callback
  ELSE 0

\* list.splice(list.indexOf(callback), 1): a start of -1 counts from the
\* end, so the last element goes when callback is not in the list
Splice(list, callback) ==
  LET i == IF IndexOf(list, callback) = 0 THEN Len(list)
           ELSE IndexOf(list, callback)
  IN [k \in 1..(Len(list) - (IF list = << >> THEN 0 ELSE 1)) |->
        IF k < i THEN list[k] ELSE list[k + 1]]

\* a callback that was handed to onProcessExit
WasRegistered(callback) ==
  \/ callback \in Range(onProcessExitListeners)
  \/ \E h \in DOMAIN handlers : callback \in Range(handlers[h].listeners)

\* utils.ts:83-86: the function onProcessExit returned is called, by a
\* running callback or by anyone else
Unsubscribe(callback) ==
  /\ proc = "running"
  /\ WasRegistered(callback)
  /\ onProcessExitListeners # << >>
  /\ onProcessExitListeners' = Splice(onProcessExitListeners, callback)
  /\ UNCHANGED <<inputVars, devVars, taskVars, thrVars, onProcessExitHooked,
                 oldListener, sigintListeners, handlers, proc, signals,
                 registrations, tdCount, tdDone>>

\* callers of onProcessExit that also unsubscribe
NextUnsubscribe ==
  \/ NextHook
  \/ \E kind \in CallbackKinds, id \in 1..MaxCallbacks :
       Unsubscribe([kind |-> kind, id |-> id])

SpecUnsubscribe == InitHook /\ [][NextUnsubscribe]_vars

\* ThrottleTime alone, with its default rate
InitThrottle ==
  /\ InitTasks(0, {TRUE})
  /\ InPlace(0)
  /\ NoFeed(0)
  /\ thr = [id \in {Standalone} |-> NewThrottle(DefaultCps, 0)]
  /\ sigintListeners = << >>

NextThrottle ==
  \/ Trigger
  \/ TimerFire(Standalone)
  \/ Tick

SpecThrottle == InitThrottle /\ [][NextThrottle]_vars

\* one task whose source stays as it is: the manifest watcher reports
\* saves that change nothing and the rebuild runs again
NextRebuild ==
  \/ Run
  \/ TaskStep(Solo)
  \/ ManifestTouch(Solo)
  \/ ManifestEvent(Solo)
  \/ TimerFire(Solo)
  \/ Tick

SpecRebuild == Init /\ [][NextRebuild]_vars

\* an awaited filesystem call of the call r of updateNodeModulesSymLinks
\* rejects with an I/O error
RebuildFail(t, r) ==
  /\ proc = "running"
  /\ faults < MaxFaults
  /\ faults' = faults + 1
  /\ Reject(t, r)
  /\ UNCHANGED <<ntasks, watching, preSync, setup, feed, workspace, promises,
                 unlinkable, devVars, mirror, closed, peerDeps, peerDepsArray,
                 mfEvents, rootEvents, now, calls, hookRest>>

\* one task on an unchanged source, with a filesystem that can fail
NextFault ==
  \/ NextRebuild
  \/ \E r \in InFlight(Solo) : RebuildFail(Solo, r)

SpecFault == Init /\ [][NextFault]_vars

\* one task whose source loses its node_modules while the manifest watcher
\* reports saves
NextNm ==
  \/ NextRebuild
  \/ RemoveSourceNodeModules(Solo)

SpecNm == Init /\ [][NextNm]_vars

\* one task on a consumer filesystem that may refuse the link of one root
\* entry of the source (EPERM, EEXIST, ...)
InitLink ==
  /\ InitTasks(1, BOOLEAN)
  /\ setup = [t \in 1..1 |-> "ok"]
  /\ hasManifest = [t \in 1..1 |-> TRUE]
  /\ unlinkable \in RootNames \cup {NoEntry}
  /\ NoFeed(1)
  /\ thr = [t \in 1..1 |-> NoThrottle]
  /\ sigintListeners = << >>

SpecLink == InitLink /\ [][NextRebuild]_vars

\* one task whose source gets, and loses again, a top-level entry with a
\* name that goes on after `node_modules`
NextBackup ==
  \/ Run
  \/ TaskStep(Solo)
  \/ RootChange(Solo, "node_modules_backup")
  \/ RootEvent(Solo)

SpecBackup == Init /\ [][NextBackup]_vars

\* the events the root watcher emits
RootEventKinds == { "add", "change", "unlink" }

RootEventsOf(paths) == [event : RootEventKinds, path : paths]

SeqsUpTo(S, n) == UNION { [1..k -> S] : k \in 0..n }

\* the orders in which the events of q can be delivered
Perms(q) ==
  { [i \in 1..Len(q) |-> q[p[i]]] : p \in Permutations(1..Len(q)) }

\* the root-watch handler alone: two established tasks with equal mirrors
\* are handed the same events in two orders; srcRoot is the state of the
\* source when all of them have been delivered
InitReorder ==
  /\ ntasks = 2
  /\ watching = TRUE
  /\ preSync = [t \in 1..2 |-> "absent"]
  /\ InPlace(2)
  /\ workspace = << >>
  /\ promises = << >>
  /\ faults = 0
  /\ manifest = [t \in 1..2 |-> {}]
  /\ \E final \in SUBSET RootNames : srcRoot = [t \in 1..2 |-> final]
  /\ srcNm = [t \in 1..2 |-> FALSE]
  /\ changes = 0
  /\ pc = [t \in 1..2 |-> "watching"]
  /\ \E top \in SUBSET RootNames :
       mirror = [t \in 1..2 |-> [Occupant("dir") EXCEPT !.top = top]]
  /\ closed = [t \in 1..2 |-> FALSE]
  /\ watchers = [t \in 1..2 |-> {"manifest", "root"}]
  /\ peerDeps = [t \in 1..2 |-> {}]
  /\ peerDepsArray = [t \in 1..2 |-> << >>]
  /\ rb = [t \in 1..2 |-> EmptyBag]
  /\ mfEvents = [t \in 1..2 |-> 0]
  /\ \E q \in SeqsUpTo(RootEventsOf(RootNames), MaxEvents) :
       \E r \in Perms(q) : feed = <<q, r>>
  /\ rootEvents = feed
  /\ thr = [t \in 1..2 |-> NewThrottle(RebuildCps, 0)]
  /\ now = 0
  /\ calls = << >>
  /\ onProcessExitListeners = <<TaskCallback(2), TaskCallback(1)>>
  /\ onProcessExitHooked = TRUE
  /\ oldListener = << >>
  /\ sigintListeners = <<"hook">>
  /\ handlers = << >>
  /\ proc = "running"
  /\ signals = 0
  /\ registrations = 0
  /\ tdCount = [t \in 1..2 |-> 0]
  /\ tdDone = [t \in 1..2 |-> FALSE]

\* the handlers of the two tasks share nothing: one order is applied to
\* its end, then the other
NextReorder ==
  \E t \in Tasks :
    /\ \A u \in 1..(t - 1) : rootEvents[u] = << >>
    /\ RootEvent(t)

SpecReorder == InitReorder /\ [][NextReorder]_vars

(***************************************************************************)
(* Properties.                                                             *)
(***************************************************************************)
\* every operation of task t that was started has completed: the initial
\* sync, every rebuild, every delivered watch event and the rebuild a
\* manifest event asked the throttle for
Quiet(t) ==
  /\ pc[t] \in {"watching", "finished"}
  /\ rb[t] = EmptyBag
  /\ mfEvents[t] = 0
  /\ rootEvents[t] = << >>
  /\ ~thr[t].dirty

\* the names task t has read from peerDependencies: those of the manifest
\* as last read, and every name readDeps has pushed
TaskPeers(t) == peerDeps[t] \cup Range(peerDepsArray[t])

\* C1: once the operations of an open task have completed, its mirror's
\* node_modules holds no entry named after a peer dependency the task has
\* read, neither at top level nor one level below a scope directory
C1_PeerExclusion ==
  \A t \in Tasks :
    Quiet(t) /\ ~closed[t] => \A dep \in TaskPeers(t) : ~HasEntry(mirror[t], dep)

\* a watching task at rest after a throttled rebuild, with a peer name read
\* twice and the rest of the link farm in place
C1_Witness ==
  \E t \in Tasks :
    /\ Quiet(t) /\ ~closed[t] /\ pc[t] = "watching"
    /\ thr[t].last > 0
    /\ Len(peerDepsArray[t]) >= 2
    /\ mirror[t].links \cup mirror[t].dirs # {}

\* directories of the source's node_modules
SourceDirs(t) ==
  IF srcNm[t] THEN { file \in Range(NmListing) : IsDirectory(file) } ELSE {}

\* a manifest event has been handled and the rebuild it asked for has run
\* to completion
RebuiltAfterManifestEvent(t) ==
  /\ Quiet(t) /\ ~closed[t] /\ pc[t] = "watching"
  /\ thr[t].last > 0

\* C2: after a manifest event and its rebuild, the link farm has an entry
\* for a directory of the source's node_modules exactly when its name is
\* not in peerDependencies as last re-read
C2_FarmIsListingMinusPeers ==
  \A t \in Tasks :
    RebuiltAfterManifestEvent(t) =>
      \A file \in SourceDirs(t) :
        (file \in mirror[t].links \cup mirror[t].dirs) <=> (<<file>> \notin peerDeps[t])

\* C3: once the shutdown callback of a task has run to completion, the
\* mirror path does not exist (or is a plain link to the source) and no
\* step changes it any more
C3_TeardownSafety ==
  [][\A t \in Tasks :
       tdDone[t] => /\ mirror[t] \in {Absent, Occupant("link")}
                    /\ mirror'[t] = mirror[t]]_vars

\* C4: the shutdown signal ends in a state where every mirror path is
\* absent and no watcher is open: when the process has exited on the signal,
\* after which nothing runs any more, that is the state it has left
C4_InterruptConvergence ==
  proc = "exited" => \A t \in Tasks : mirror[t] = Absent /\ watchers[t] = {}

\* callbacks of its snapshot a handler run has invoked
Invoked(r) == IF r.state = "finished" THEN Len(r.listeners) ELSE r.idx

\* C5: a run of the SIGINT handler leaves its loop only when every
\* registered callback has been invoked, also when one of them throws
C5_AllCallbacksRun ==
  \A h \in 1..Len(handlers) :
    handlers[h].state # "await" => Invoked(handlers[h]) = Len(handlers[h].listeners)

\* C6: once every callback has run, the process has exited exactly when no
\* callback called recovered(), and when one did the handler of the hook is
\* gone and the handlers found at the first registration are back in order
C6_RecoverableShutdown ==
  \A h \in 1..Len(handlers) :
    LET r == handlers[h] IN
    (r.state # "await" /\ Invoked(r) = Len(r.listeners)) =>
      /\ (proc = "exited") <=> ~r.isRecovered
      /\ r.isRecovered => sigintListeners = oldListener

\* C7: the shutdown callback of a task is invoked at most once
C7_DestroyedOnce == \A t \in Tasks : tdCount[t] <= 1

\* a second shutdown signal was delivered after the callback was invoked
C7_Witness == \E t \in Tasks : tdCount[t] = 1 /\ signals = 2

\* a rebuild step or the root-watch handler of task t writes in this step
ReactorWrites(t) ==
  /\ mirror'[t] # mirror[t]
  /\ rb'[t] # rb[t] \/ Len(rootEvents'[t]) < Len(rootEvents[t])

\* C8: a rebuild step or root-watch handler changes the mirror only while
\* closed is false
C8_ClosedGating ==
  [][\A t \in Tasks : ReactorWrites(t) => ~closed[t]]_vars

\* C9: after the shutdown callback has completed, the mirror path holds
\* what it held before the sync began
C9_RevertRoundTrip ==
  \A t \in Tasks : tdDone[t] => mirror[t] = Occupant(preSync[t])

\* C10: two consecutive invocations of `call` are more than 1000/cps ms
\* apart, and at most cps of them fall into one second
C10_RateLimit ==
  /\ \A n \in 1..(Len(calls) - 1) :
       (calls[n + 1] - calls[n]) * thr[Standalone].cps > SecondMs
  /\ Len(Recent(calls, now)) <= thr[Standalone].cps

\* three invocations in a row, and a trigger that waits for its timer
C10_Witness ==
  /\ Len(calls) >= 3
  /\ thr[Standalone].dirty /\ thr[Standalone].timers > 0

\* C11: a trigger of the throttled rebuild is never dropped: while the
\* throttle is dirty a timer is set, and as long as the process runs the
\* rebuild is invoked at or after the trigger, which clears dirty
C11_TrailingEdge ==
  /\ [](thr[Solo].dirty => thr[Solo].timers > 0)
  /\ thr[Solo].dirty ~> (~thr[Solo].dirty \/ proc # "running")

\* the last manifest event has been handled, its names are read, and its
\* trigger waits for the timer
C11_Witness ==
  /\ thr[Solo].dirty /\ thr[Solo].timers > 0
  /\ mfEvents[Solo] = 0 /\ changes = MaxChanges
  /\ peerDeps[Solo] = manifest[Solo] /\ manifest[Solo] # {}

\* a timer of the stand-alone throttle fires and tick invokes `call`
TimerInvokes ==
  /\ Len(calls') = Len(calls) + 1
  /\ thr'[Standalone].timers < thr[Standalone].timers

\* C12: the triggers of one burst are served by one invocation: when a
\* timer makes tick invoke `call`, a trigger is waiting that no invocation
\* has served yet
C12_Coalescing ==
  [][TimerInvokes => thr[Standalone].dirty]_vars

\* the root-watch handler of task t runs for the first pending event
RootHandles(t) ==
  /\ rootEvents[t] # << >>
  /\ rootEvents'[t] = Tail(rootEvents[t])
  /\ closed'[t] = closed[t]

LastOf(q, path, kinds) ==
  LET at == { i \in 1..Len(q) : q[i].path = path /\ q[i].event \in kinds }
  IN IF at = {} THEN "none"
     ELSE q[CHOOSE i \in at : \A j \in at : j <= i].event

\* for every path, the last event of q among those of kinds agrees with
\* the final state of the path in the source of task t
AgreesWithSource(q, t, kinds) ==
  \A path \in RootNames :
    LET e == LastOf(q, path, kinds)
    IN e # "none" => ((e # "unlink") <=> (path \in srcRoot[t]))

\* every event handed to a task has been handled
AllHandled == \A t \in Tasks : rootEvents[t] = << >>

RECURSIVE LinkSubFiles(_, _, _)
LinkSubFiles(m, file, j) ==
  IF j > Len(SubListing(file)) THEN m
  ELSE LinkSubFiles(EnsureSymlinkSub(m, file, SubListing(file)[j]), file, j + 1)

\* lines 107-129 run without interleaving, from the i-th file on
RECURSIVE LinkFiles(_, _)
LinkFiles(m, i) ==
  IF i > Len(NmListing) THEN m
  ELSE LET file == NmListing[i]
       IN LinkFiles(IF ~IsDirectory(file) THEN m
                    ELSE IF HasPackageJson(file) THEN EnsureSymlinkTop(m, file)
                    ELSE LinkSubFiles(EnsureDir(m, file), file, 1),
                    i + 1)

\* lines 131-133 run without interleaving
RECURSIVE RemoveDeps(_, _)
RemoveDeps(m, deps) ==
  IF deps = << >> THEN m ELSE RemoveDeps(RemoveDep(m, Head(deps)), Tail(deps))

\* one call of updateNodeModulesSymLinks of task t run to completion on
\* mirror m with nothing else in between
RebuildToCompletion(t, m) ==
  IF ~srcNm[t] THEN RemoveNodeModules(m)
  ELSE RemoveDeps(LinkFiles(RemoveNodeModules(m), 1), peerDepsArray[t])

\* the entries of the mirror's node_modules
Farm(m) == [nm |-> m.nm, links |-> m.links, dirs |-> m.dirs, sub |-> m.sub]

\* C15: with the source's node_modules and manifest unchanged, every
\* rebuild that has run to completion leaves the entries that one rebuild
\* leaves, and a further rebuild on them changes nothing
C15_IdempotentRebuild ==
  \A t \in Tasks :
    (Quiet(t) /\ ~closed[t]) =>
      /\ Farm(mirror[t]) = Farm(RebuildToCompletion(t, Occupant("dir")))
      /\ Farm(RebuildToCompletion(t, mirror[t])) = Farm(mirror[t])

\* the rebuild has run again after the first, on an unchanged source with
\* a peer to leave out and entries to link
C15_Witness ==
  \E t \in Tasks :
    /\ Quiet(t) /\ ~closed[t] /\ pc[t] = "watching"
    /\ thr[t].last > 0 /\ changes = MaxChanges
    /\ peerDeps[t] = {<<"rxjs">>}
    /\ mirror[t].sub # {}

\* C16: while a task is open and watching with no root-watch event pending,
\* the mirror's top-level entries other than node_modules are the source's
C16_MirrorProjection ==
  \A t \in Tasks :
    (~closed[t] /\ pc[t] = "watching" /\ "root" \in watchers[t]
       /\ rootEvents[t] = << >>) =>
      mirror[t].top = srcRoot[t]

\* C17: a task whose source has no package.json reads the empty set of
\* peer names and continues: sync does not fail on it
C17_ManifestReaderNeverFails ==
  \A t \in Tasks :
    (setup[t] = "ok" /\ ~hasManifest[t] /\ pc[t] # "init") =>
      pc[t] # "failed" /\ peerDeps[t] = {}

\* the shutdown callback of task t is registered, or already taken by a
\* handler run
HookOf(t) ==
  \/ \E i \in DOMAIN onProcessExitListeners :
        onProcessExitListeners[i] = TaskCallback(t)
  \/ \E h \in DOMAIN handlers :
        TaskCallback(t) \in Range(handlers[h].listeners)

\* C18: a sync started for a consumer without package.json, with an
\* undefined source or with a source that does not exist fails before any
\* side effect: the mirror path is as it was, no shutdown hook of the task
\* is registered and no watcher is started
C18_ConfigurationErrors ==
  \A t \in Tasks :
    setup[t] # "ok" =>
      /\ pc[t] \in {"init", "failed"}
      /\ mirror[t] = Occupant(preSync[t])
      /\ ~HookOf(t)
      /\ watchers[t] = {}
      /\ ~thr[t].made /\ rb[t] = EmptyBag

\* a sync has failed on its configuration, with a mirror path in place,
\* while the other task of the run is watching
C18_Witness ==
  \E t, u \in Tasks :
    /\ setup[t] # "ok" /\ pc[t] = "failed" /\ preSync[t] # "absent"
    /\ pc[u] = "watching" /\ HookOf(u)

(***************************************************************************)
(* run(): the package folders of the command line, lerna.json and          *)
(* .links.json decide which sync() calls are made.                         *)
(***************************************************************************)
\* the package folders of the workspace; a package is named as its folder
Folders == {"a", "b"}
\* a path that is not there
MissingFolder == "missing"
\* the names a package can depend on: the packages and an outside one
DepNames == {"a", "b", "x"}
DepOrder == <<"a", "b", "x">>

\* the folders of q, each once, in the orders glob.sync can return them
Packages == {q \in SeqsUpTo(Folders, Cardinality(Folders)) :
               \A i, j \in DOMAIN q : i # j => q[i] # q[j]}

\* what run() finds: argv.slice(2), lerna.json with the packages its globs
\* match, the keys of .links.json, and the dependencies and
\* devDependencies of each package
Workspaces ==
  [args : SeqsUpTo(Folders \cup {MissingFolder}, MaxArgs),
   hasLerna : {TRUE}, packages : Packages,
   hasLinks : {TRUE}, syncConfig : SUBSET DepNames,
   deps : {d \in [Folders -> SUBSET DepNames] : \A f \in Folders : f \notin d[f]}]
  \cup
  [args : SeqsUpTo(Folders \cup {MissingFolder}, MaxArgs),
   hasLerna : {FALSE}, packages : {<< >>},
   hasLinks : {TRUE}, syncConfig : SUBSET DepNames,
   deps : {d \in [Folders -> SUBSET DepNames] : \A f \in Folders : f \notin d[f]}]
  \cup
  [args : SeqsUpTo(Folders \cup {MissingFolder}, MaxArgs),
   hasLerna : {TRUE}, packages : Packages,
   hasLinks : {FALSE}, syncConfig : {{}},
   deps : {d \in [Folders -> SUBSET DepNames] : \A f \in Folders : f \notin d[f]}]
  \cup
  [args : SeqsUpTo(Folders \cup {MissingFolder}, MaxArgs),
   hasLerna : {FALSE}, packages : {<< >>},
   hasLinks : {FALSE}, syncConfig : {{}},
   deps : {d \in [Folders -> SUBSET DepNames] : \A f \in Folders : f \notin d[f]}]

\* the sync() calls made for one consumer folder over the names, in order
RECURSIVE DepCalls(_, _, _)
DepCalls(ws, folder, names) ==
  IF names = << >> THEN << >>
  ELSE (IF Head(names) \in ws.deps[folder]
        THEN <<[cwd |-> folder, packageName |-> Head(names)]>>
        ELSE << >>) \o DepCalls(ws, folder, Tail(names))

\* the sync() calls made over the consumer folders, in order
RECURSIVE FolderCalls(_, _, _)
FolderCalls(ws, folders, names) ==
  IF folders = << >> THEN << >>
  ELSE DepCalls(ws, Head(folders), names) \o FolderCalls(ws, Tail(folders), names)

\* lines 229-259: every package is pushed to foundPackageFolders and synced
\* with each package it depends on
lerna(ws) == FolderCalls(ws, ws.packages, ws.packages)

\* lines 270-282: every found folder is synced with each key of
\* .links.json it depends on
config(ws, foundPackageFolders) ==
  FolderCalls(ws, foundPackageFolders,
              SelectSeq(DepOrder, LAMBDA n : n \in ws.syncConfig))

\* foundPackageFolders as config() gets it: the arguments, then what lerna()
\* has pushed
FoundPackageFolders(ws) ==
  ws.args \o (IF ws.hasLerna THEN ws.packages ELSE << >>)

\* lines 297-311: an argument that is no package folder ends the process
ArgsFound(ws) == \A i \in DOMAIN ws.args : ws.args[i] \in Folders

\* lines 313-321: the promises of lerna(), then those of config()
Promises(ws) ==
  (IF ws.hasLerna THEN lerna(ws) ELSE << >>)
  \o (IF ws.hasLinks THEN config(ws, FoundPackageFolders(ws)) ELSE << >>)

\* line 37: the mirror path of a sync() call
clonedPackagePathInRootNodeModules(call) ==
  <<call.cwd, "node_modules", call.packageName>>

\* lines 287-336: run() up to its await
run ==
  /\ proc = "running"
  /\ promises = << >>
  /\ IF ~ArgsFound(workspace) \/ Promises(workspace) = << >>
     THEN proc' = "exited" /\ promises' = promises
     ELSE proc' = proc /\ promises' = Promises(workspace)
  /\ UNCHANGED <<ntasks, watching, preSync, setup, feed, workspace, faults,
                 unlinkable, devVars, taskVars, thrVars, onProcessExitListeners,
                 onProcessExitHooked, oldListener, sigintListeners, handlers,
                 signals, registrations, tdCount, tdDone>>

InitRun ==
  /\ InitTasks(0, BOOLEAN)
  /\ InPlace(0)
  /\ feed = << >>
  /\ workspace \in Workspaces
  /\ thr = << >>
  /\ sigintListeners = << >>

NextRun == run

SpecRun == InitRun /\ [][NextRun]_vars

\* C19: no two sync() calls of one run have the same mirror path
C19_MirrorIsolation ==
  \A i, j \in DOMAIN promises :
    i # j => clonedPackagePathInRootNodeModules(promises[i])
               # clonedPackagePathInRootNodeModules(promises[j])

\* the tasks whose sync() has passed its checks and readDeps
StartedTasks == {t \in Tasks : pc[t] \notin {"init", "failed"}}

\* C20: until a shutdown signal is handled, as many shutdown hooks are
\* registered as tasks were started with watching enabled; a sync started
\* with watching disabled registers no hook, creates no watcher and no
\* throttle, and when it has returned the mirror is in place with the
\* source's root entries and the link farm of one rebuild
C20_WatchModeLifecycle ==
  /\ handlers = << >> =>
        Len(onProcessExitListeners) =
          (IF watching THEN Cardinality(StartedTasks) ELSE 0)
  /\ ~watching =>
        \A t \in Tasks :
          /\ ~HookOf(t)
          /\ watchers[t] = {}
          /\ ~thr[t].made
          /\ pc[t] # "watching"
          /\ pc[t] = "finished" =>
                /\ mirror[t].kind = "dir"
                /\ mirror[t].top = srcRoot[t]
                /\ Farm(mirror[t]) = Farm(RebuildToCompletion(t, Occupant("dir")))

\* every sync of a run without watchers has returned, over a mirror path
\* that was occupied, and a shutdown signal has come since
C20_Witness ==
  /\ ~watching /\ signals > 0
  /\ \A t \in Tasks :
       pc[t] = "finished" /\ preSync[t] # "absent" /\ mirror[t].links # {}

\* the shutdown callback of task t is invoked in this step: it runs up to
\* its await, where fs.remove(mirror) has been started
TeardownBegins(t) == tdCount'[t] = tdCount[t] + 1

\* C21: when the shutdown callback of a task has started the removal of
\* the mirror path, closed is true and every watcher the task had pushed is
\* closed, with the mirror path not yet removed; the removal completes only
\* with closed true
C21_TeardownOrdering ==
  [][\A t \in Tasks :
       /\ TeardownBegins(t) =>
            closed'[t] /\ watchers'[t] = {} /\ mirror'[t] = mirror[t]
       /\ (tdDone'[t] /\ ~tdDone[t]) => closed[t]]_vars

\* the callback of a watching task awaits fs.remove: its two watchers are
\* closed and the mirror is still there
C21_Witness ==
  \E t \in Tasks :
    /\ pc[t] = "watching" /\ tdCount[t] = 1 /\ ~tdDone[t]
    /\ closed[t] /\ watchers[t] = {} /\ MirrorExists(mirror[t])

\* the shutdown callback of task t is in onProcessExitListeners
Armed(t) == TaskCallback(t) \in Range(onProcessExitListeners)

\* C22: in watch mode every change of a task's mirror path is made while
\* the task's shutdown callback is registered, and while the process runs
\* a mirror path that is not as the sync found it has its callback
\* registered
C22_HookArmedFirst ==
  [][watching =>
       \A t \in Tasks :
         /\ mirror'[t] # mirror[t] => Armed(t)
         /\ (proc' = "running" /\ mirror'[t] # Occupant(preSync[t])) =>
              TaskCallback(t) \in Range(onProcessExitListeners')]_vars

\* a watching task has removed the prior occupant of its mirror path and
\* built the directory, its callback registered and no signal delivered
C22_Witness ==
  \E t \in Tasks :
    /\ watching /\ preSync[t] # "absent" /\ signals = 0
    /\ pc[t] = "awaitRebuild" /\ mirror[t].kind = "dir"
    /\ Armed(t)

\* C23: at most one call of updateNodeModulesSymLinks of a task is between
\* its removal step and the end of its loop over peerDepsArray
C23_RebuildAtomicity ==
  \A t \in Tasks : BagCardinality(rb[t]) <= 1

\* C24: after a rebuild has failed with an I/O error the process runs on
\* and the watching task is open: it has not failed, and once it watches
\* both watchers run and the throttle is there for the next manifest event
C24_RebuildErrorsLocal ==
  \A t \in Tasks :
    (watching /\ faults > 0) =>
      /\ proc = "running"
      /\ pc[t] # "failed"
      /\ pc[t] = "watching" => (watchers[t] = {"manifest", "root"} /\ thr[t].made)

\* C25: when the link of one top-level entry of the source cannot be made,
\* the initial mirror still holds the links of all the others
C25_InitialLinkFailures ==
  \A t \in Tasks :
    (pc[t] \in {"awaitRebuild", "watching", "finished"} /\ ~closed[t]) =>
      mirror[t].top = srcRoot[t] \ {unlinkable}

\* C26: a run of the SIGINT handler iterates the callbacks registered when
\* the signal was handled: its list is the one of that moment, no
\* registration or unsubscription changes it, its callbacks are invoked one
\* after the other, and it leaves its loop with every one of them invoked
C26_IterationIsolated ==
  [][/\ Len(handlers') > Len(handlers) =>
          handlers'[Len(handlers')].listeners = onProcessExitListeners
     /\ \A h \in 1..Len(handlers) :
          /\ handlers'[h].listeners = handlers[h].listeners
          /\ handlers'[h].idx \in {handlers[h].idx, handlers[h].idx + 1}
     /\ \A h \in 1..Len(handlers') :
          handlers'[h].state # "await" =>
            Invoked(handlers'[h]) = Len(handlers'[h].listeners)]_vars

\* the entries of the mirror's node_modules below the directory file
SubEntries(m, file) == { e[2] : e \in { s \in m.sub : s[1] = file } }

\* the link farm of m for the source's listing: a file that is no
\* directory has no entry, a directory outside `peers` with a package.json
\* is one link, any other directory outside `peers` is a real directory
\* that holds one link per sub-directory whose scoped name is outside
\* `subPeers`
FarmShape(m, peers, subPeers) ==
  \A file \in Range(NmListing) :
    IF ~IsDirectory(file) THEN file \notin m.links \cup m.dirs
    ELSE <<file>> \notin peers =>
           IF HasPackageJson(file)
           THEN file \in m.links /\ file \notin m.dirs /\ SubEntries(m, file) = {}
           ELSE file \in m.dirs /\ file \notin m.links
                  /\ SubEntries(m, file) =
                       { s \in Range(SubListing(file)) : <<file, s>> \notin subPeers }

ThrottledInvoked(t) ==
  thr[t].made /\ thr'[t].made /\ thr'[t].last > thr[t].last

\* sync() reaches line 151 in this step and makes the first call
InitialInvoked(t) ==
  pc[t] \in {"pathExists", "preclean"} /\ pc'[t] \notin {"pathExists", "preclean"}

\* C28: a call of updateNodeModulesSymLinks made while closed is true
\* returns at once: no call is in progress after it that was not before,
\* the mirror's node_modules is as it was, and a call from the throttle
\* leaves the whole mirror as it was
C28_ClosedRebuildNoop ==
  [][\A t \in Tasks :
       closed[t] =>
         /\ ThrottledInvoked(t) => mirror'[t] = mirror[t] /\ rb'[t] = rb[t]
         /\ InitialInvoked(t) =>
              Farm(mirror'[t]) = Farm(mirror[t]) /\ rb'[t] = rb[t]]_vars

\* the task was closed before its watchers were pushed; its manifest
\* watcher has since delivered the one edit of package.json, and the call
\* the throttle made found closed true
C28_Witness ==
  \E t \in Tasks :
    /\ closed[t] /\ pc[t] = "watching" /\ "manifest" \in watchers[t]
    /\ changes = 1 /\ srcRoot[t] = RootNames /\ peerDeps[t] = manifest[t]
    /\ mfEvents[t] = 0 /\ ~thr[t].dirty /\ thr[t].last > 0
    /\ rb[t] = EmptyBag

\* C29: when a rebuild has been called on a source without node_modules
\* and every call has returned, the mirror has no node_modules
C29_NoSourceNodeModules ==
  \A t \in Tasks :
    (Quiet(t) /\ ~closed[t] /\ ~srcNm[t]) => ~mirror[t].nm

\* the root-watch handler of task t leaves the task as it was in this step
TaskUntouched(t) ==
  /\ mirror'[t] = mirror[t] /\ pc'[t] = pc[t] /\ watchers'[t] = watchers[t]
  /\ rb'[t] = rb[t] /\ thr'[t] = thr[t] /\ proc' = proc

C31_UnsubscribeOwnOnly ==
  [][\A kind \in CallbackKinds, id \in 1..MaxCallbacks :
       Unsubscribe([kind |-> kind, id |-> id]) =>
         onProcessExitListeners' =
           SelectSeq(onProcessExitListeners,
                     LAMBDA l : l # [kind |-> kind, id |-> id])]_vars

\* C32: after a shutdown that a callback recovered from, a shutdown signal
\* starts a run of the handler over the callbacks registered since
C32_HookSurvivesRecovery ==
  [][(/\ Sigint
      /\ onProcessExitListeners # << >>
      /\ \E h \in DOMAIN handlers : handlers[h].isRecovered
      /\ \A h \in DOMAIN handlers : handlers[h].state = "finished")
     => /\ Len(handlers') = Len(handlers) + 1
        /\ handlers'[Len(handlers')].listeners = onProcessExitListeners]_vars

\* C33: when the only rebuild in progress ends with an I/O error after it
\* has emptied the mirror's node_modules and gone on to fill it, no entry
\* named after a peer dependency is in it
C33_PeersOutAfterFailure ==
  [][\A t \in Tasks : \A r \in InFlight(t) :
       (RebuildFail(t, r) /\ r.pc # "remove" /\ BagCardinality(rb[t]) = 1)
       => \A dep \in TaskPeers(t) : ~HasEntry(mirror'[t], dep)]_vars

\* C34: the root-watch handler mirrors an event for every top-level entry
\* other than node_modules: after an unlink the mirror has no entry of that
\* name, and after an add it has one exactly when the loop of the initial
\* build would have linked the entry
C34_RootWatchExclusion ==
  [][\A t \in Tasks :
       (RootEvent(t) /\ Head(rootEvents[t]).path # "node_modules") =>
         LET e == Head(rootEvents[t]) IN
         /\ e.event = "unlink" => e.path \notin mirror'[t].top
         /\ e.event = "add" =>
              (e.path \in mirror'[t].top
                 <=> e.path \in LinkRootFiles(mirror[t], <<e.path>>).top)]_vars

\* C35: a shutdown signal never ends the process by its default action
\* while a run of the handler is awaiting a teardown callback
C35_SignalCannotCutTeardown ==
  proc = "killed" => \A h \in DOMAIN handlers : handlers[h].state # "await"

C37_OneAtATimeInReverse ==
  \A h \in DOMAIN handlers :
    LET l == handlers[h].listeners IN
    \A i, j \in DOMAIN l :
      i < j => /\ l[i].id > l[j].id
               /\ tdCount[l[j].id] > 0 => tdDone[l[i].id]

\* the callback of the task registered first is awaited, that of the task
\* registered after it has settled
C37_Witness ==
  /\ ntasks = 2
  /\ \E h \in DOMAIN handlers : Len(handlers[h].listeners) = 2
  /\ tdDone[2] /\ tdCount[1] = 1 /\ ~tdDone[1]

====
